---- MODULE Spec2Model ----
(***************************************************************************)
(* Model of expense_tracker.py: a command-line expense tracker that keeps  *)
(* a list of expense records in the JSON file expenses.json.  Every        *)
(* command loads the whole file, works on the list in memory and, on       *)
(* success, writes the whole list back.                                    *)
(*                                                                         *)
(* Spec     : one invocation at a time, each command one atomic step.      *)
(* SpecIds  : the add and delete commands of Spec, with a record of the    *)
(*            ids that adds have reported.                                 *)
(* SpecConc : two invocations of add/delete running at once, each split    *)
(*            at the points where it reads and writes the file.            *)
(***************************************************************************)
EXTENDS Integers, Sequences, FiniteSets, TLC

\* ------------------------------------------------------------------ bounds
MaxLen == 2     \* add is not invoked on a store that already holds this many records
MaxId  == 3     \* add is not invoked when it would assign an id above this

\* ------------------------------------------------------------ python values
\* Optional arguments: None is the empty tuple, a given value x is <<x>>.
None == <<>>
Some(x) == <<x>>
IsNone(o) == o = <<>>
Val(o) == o[1]

\* A Python float: a finite value counted in hundredths, or NaN.
Float(c) == [nan |-> FALSE, c |-> c]
NaN == [nan |-> TRUE, c |-> 0]
Zero == Float(0)
\* x <= 0 and x > 0 on floats: every comparison with NaN is false.
FloatLe0(x) == ~x.nan /\ x.c <= 0
FloatGt0(x) == ~x.nan /\ x.c > 0
\* x + y on floats: NaN is absorbing.
FloatAdd(x, y) == IF x.nan \/ y.nan THEN NaN ELSE Float(x.c + y.c)

\* Results of a call that may raise ValueError.
Ok(v) == [ok |-> TRUE, val |-> v, err |-> ""]
Raise(e) == [ok |-> FALSE, val |-> Zero, err |-> e]

\* --------------------------------------------------------------- constants
CATEGORIES ==
  <<"Food", "Transportation", "Housing", "Utilities",
    "Entertainment", "Shopping", "Healthcare", "Other">>

CategorySet == {CATEGORIES[i] : i \in 1..Len(CATEGORIES)}

\* ------------------------------------------------------------ input domains
\* Command-line strings the model draws its inputs from.
Descriptions == {"Coffee", "Bus"}
RawAmounts == {"4.5", "0", "-5", "abc", "nan"}
RawCategories == {"Food", "Transportation", "Bogus"}
\* The category filters of list and summary: also the empty string.
FilterCategories == RawCategories \cup {""}
Months == {-1, 0, 1, 2, 13}
\* The days on which commands are run, in order.
Clock ==
  << [year |-> 2025, month |-> 1, day |-> 5],
     [year |-> 2026, month |-> 1, day |-> 7] >>

OptDescriptions == {None} \cup {Some(d) : d \in Descriptions}
OptAmounts == {None} \cup {Some(a) : a \in RawAmounts}
OptCategories == {None} \cup {Some(c) : c \in RawCategories}
OptFilters == {None} \cup {Some(c) : c \in FilterCategories}
OptMonths == {None} \cup {Some(m) : m \in Months}
Ids == 1..MaxId
Procs == {1, 2}

\* Python truthiness of an optional string / optional int argument.
TruthyStr(o) == ~IsNone(o) /\ Val(o) # ""
TruthyInt(o) == ~IsNone(o) /\ Val(o) # 0

\* -------------------------------------------------------------- conversions
\* float(s) on the strings of RawAmounts.
float(s) ==
  CASE s = "4.5"  -> Ok(Float(450))
    [] s = "0"    -> Ok(Float(0))
    [] s = "-5"   -> Ok(Float(-500))
    [] s = "nan"  -> Ok(NaN)
    [] OTHER      -> Raise("could not convert string to float")

\* datetime.strftime('%Y-%m-%d'): the date text, as its three fields in order.
strftime(d) == <<d.year, d.month, d.day>>
\* datetime.strptime(text, '%Y-%m-%d')
strptime(t) == [year |-> t[1], month |-> t[2], day |-> t[3]]

\* ------------------------------------------------------------------- state
VARIABLES
  file,      \* expenses.json: [exists, data], data the list of records
  clock,     \* index into Clock of the current day
  assigned,  \* SpecIds: the ids that successful adds have reported so far
  pc,        \* SpecConc: where each invocation stands
  mem,       \* SpecConc: the list each invocation loaded
  args,      \* SpecConc: the validated arguments of each invocation
  res        \* SpecConc: what each invocation printed

vars == <<file, clock, assigned, pc, mem, args, res>>
concVars == <<pc, mem, args, res>>

datetime_now == Clock[clock]

\* What a command prints: the kind of message and the values it shows.
Msg(kind, id, cat, month, total, rows) ==
  [kind |-> kind, id |-> id, cat |-> cat, month |-> month, total |-> total, rows |-> rows]
Plain(kind) == Msg(kind, 0, "", 0, Zero, <<>>)
WithId(kind, id) == Msg(kind, id, "", 0, Zero, <<>>)
WithCat(kind, cat) == Msg(kind, 0, cat, 0, Zero, <<>>)

\* ------------------------------------------------------------------ helpers
\* The file is only ever written by save_expenses, so json.load gives back
\* the list that json.dump wrote (NaN included) and never fails to parse.
load_expenses(f) == IF ~f.exists THEN <<>> ELSE f.data

save_expenses(expenses) == [exists |-> TRUE, data |-> expenses]

RECURSIVE MaxIdOf(_)
MaxIdOf(expenses) ==
  IF Len(expenses) = 1 THEN expenses[1].id
  ELSE LET m == MaxIdOf(Tail(expenses)) IN
       IF expenses[1].id > m THEN expenses[1].id ELSE m

\* Variants of get_next_id: the count of records plus one; the first id not in use.
get_next_id_count(expenses) == Len(expenses) + 1

get_next_id_firstfree(expenses) ==
  LET used == {expenses[k].id : k \in 1..Len(expenses)} IN
  CHOOSE n \in 1..(Len(expenses) + 1) :
    n \notin used /\ \A m \in 1..(n - 1) : m \in used

get_next_id(expenses) ==
  IF expenses = <<>> THEN 1 ELSE MaxIdOf(expenses) + 1

validate_amount(amount) ==
  LET f == float(amount) IN
  IF ~f.ok THEN Raise("Invalid amount")
  ELSE IF FloatLe0(f.val) THEN Raise("Invalid amount")
  ELSE Ok(f.val)

\* Variant of validate_category: nothing is checked.
validate_category_unchecked(category) == Ok(Zero)

validate_category(category) ==
  IF category \notin CategorySet THEN Raise("Invalid category") ELSE Ok(Zero)

\* Variant of SumAmounts: the first amount is left out.
RECURSIVE SumAmounts_skipfirst(_)
SumAmounts_skipfirst(expenses) ==
  IF Len(expenses) <= 1 THEN Zero
  ELSE FloatAdd(SumAmounts_skipfirst(SubSeq(expenses, 1, Len(expenses) - 1)),
                expenses[Len(expenses)].amount)

\* sum(exp['amount'] for exp in expenses), starting from 0
RECURSIVE SumAmounts(_)
SumAmounts(expenses) ==
  IF expenses = <<>> THEN Zero
  ELSE FloatAdd(SumAmounts(SubSeq(expenses, 1, Len(expenses) - 1)),
                expenses[Len(expenses)].amount)

ErrorMsg(e) == Plain(IF e = "Invalid amount" THEN "InvalidAmount" ELSE "InvalidCategory")

\* ----------------------------------------------------------------- handlers
\* Each handler maps the file, the day and its arguments to the file it leaves
\* and the message it prints.
Done(f, o) == [file |-> f, out |-> o]

new_expense(expenses, today, description, amount, category) ==
  [id |-> get_next_id(expenses), date |-> strftime(today),
   description |-> description, amount |-> amount, category |-> category]

\* The validation that opens add_expense: the validated amount, or the error.
add_validate(amount, category) ==
  LET va == validate_amount(amount) IN
  IF ~va.ok THEN va
  ELSE LET vc == validate_category(category) IN
       IF ~vc.ok THEN vc ELSE va

\* The end of add_expense, from the list it loaded: build the record, append
\* it, save the list and report the id.
add_save(expenses, today, description, amount, category) ==
  LET new == new_expense(expenses, today, description, amount, category)
  IN Done(save_expenses(Append(expenses, new)), WithId("Added", new.id))

add_expense(f, today, description, amount, category) ==
  LET v == add_validate(amount, category) IN
  IF ~v.ok THEN Done(f, ErrorMsg(v.err))
  ELSE add_save(load_expenses(f), today, description, v.val, category)

\* Variant of FindFirst: the first record of the list is taken when the id is there.
FindFirst_head(expenses, expense_id) ==
  IF \E i \in 1..Len(expenses) : expenses[i].id = expense_id THEN 1 ELSE 0

\* Index of the first record with the id, 0 when there is none.
FindFirst(expenses, expense_id) ==
  IF \E i \in 1..Len(expenses) : expenses[i].id = expense_id
  THEN CHOOSE i \in 1..Len(expenses) :
         /\ expenses[i].id = expense_id
         /\ \A j \in 1..(i - 1) : expenses[j].id # expense_id
  ELSE 0

\* Variant of update_except: the list changed in memory is saved all the same.
update_except_saves(f, expenses, e) == Done(save_expenses(expenses), ErrorMsg(e))

\* The except branch of update_expense: the message is printed, the list that
\* was changed in memory is dropped.
update_except(f, expenses, e) == Done(f, ErrorMsg(e))

update_expense(f, expense_id, description, amount, category) ==
  LET expenses == load_expenses(f)
      i == FindFirst(expenses, expense_id)
  IN
  IF i = 0 THEN Done(f, WithId("NotFound", expense_id))
  ELSE
    LET e1 == IF IsNone(description) THEN expenses
              ELSE [expenses EXCEPT ![i].description = Val(description)]
    IN
    IF ~IsNone(amount) /\ ~validate_amount(Val(amount)).ok
    THEN update_except(f, e1, validate_amount(Val(amount)).err)
    ELSE
      LET e2 == IF IsNone(amount) THEN e1
                ELSE [e1 EXCEPT ![i].amount = validate_amount(Val(amount)).val]
      IN
      IF ~IsNone(category) /\ ~validate_category(Val(category)).ok
      THEN update_except(f, e2, validate_category(Val(category)).err)
      ELSE
        LET e3 == IF IsNone(category) THEN e2
                  ELSE [e2 EXCEPT ![i].category = Val(category)]
        IN Done(save_expenses(e3), WithId("Updated", expense_id))

\* main's dispatch of the update command
main_update(f, expense_id, description, amount, category) ==
  IF IsNone(description) /\ IsNone(amount) /\ IsNone(category)
  THEN Done(f, Plain("NoFlagsProvided"))
  ELSE update_expense(f, expense_id, description, amount, category)

FilterCategory(expenses, cat) == SelectSeq(expenses, LAMBDA exp : exp.category = cat)

\* One row of the table: ID, Date, Category, Description, Amount
Row(exp) == <<exp.id, exp.date, exp.category, exp.description, exp.amount>>

list_expenses(f, category) ==
  LET expenses == load_expenses(f) IN
  IF expenses = <<>> THEN Done(f, Plain("NoExpenses"))
  ELSE IF TruthyStr(category)
  THEN
    LET vc == validate_category(Val(category)) IN
    IF ~vc.ok THEN Done(f, ErrorMsg(vc.err))
    ELSE LET sel == FilterCategory(expenses, Val(category)) IN
         IF sel = <<>> THEN Done(f, WithCat("NoExpensesInCategory", Val(category)))
         ELSE Done(f, Msg("Table", 0, "", 0, Zero, [k \in 1..Len(sel) |-> Row(sel[k])]))
  ELSE Done(f, Msg("Table", 0, "", 0, Zero, [k \in 1..Len(expenses) |-> Row(expenses[k])]))

FilterMonth(expenses, month, current_year) ==
  SelectSeq(expenses, LAMBDA exp : /\ strptime(exp.date).month = month
                                   /\ strptime(exp.date).year = current_year)

\* The breakdown lines: one per category with a subtotal above 0, in the
\* order of CATEGORIES.
Breakdown(expenses) ==
  LET sub(cat) == SumAmounts(FilterCategory(expenses, cat))
      shown == SelectSeq(CATEGORIES, LAMBDA cat : FloatGt0(sub(cat)))
  IN [k \in 1..Len(shown) |-> <<shown[k], sub(shown[k])>>]

\* The part of get_summary that filters by month and prints the total.
summary_total(f, expenses, today, month, category) ==
  IF TruthyInt(month) /\ ~(1 <= Val(month) /\ Val(month) <= 12)
  THEN Done(f, Plain("InvalidMonth"))
  ELSE
    LET sel == IF TruthyInt(month)
               THEN FilterMonth(expenses, Val(month), today.year)
               ELSE expenses
        total == SumAmounts(sel)
    IN
    IF TruthyInt(month) /\ TruthyStr(category)
    THEN Done(f, Msg("TotalMonthCategory", 0, Val(category), Val(month), total, <<>>))
    ELSE IF TruthyInt(month)
    THEN Done(f, Msg("TotalMonth", 0, "", Val(month), total, <<>>))
    ELSE IF TruthyStr(category)
    THEN Done(f, Msg("TotalCategory", 0, Val(category), 0, total, <<>>))
    ELSE Done(f, Msg("Total", 0, "", 0, total, Breakdown(sel)))

get_summary(f, today, month, category) ==
  LET expenses == load_expenses(f) IN
  IF expenses = <<>> THEN Done(f, Plain("NoExpenses"))
  ELSE IF TruthyStr(category)
  THEN
    LET vc == validate_category(Val(category)) IN
    IF ~vc.ok THEN Done(f, ErrorMsg(vc.err))
    ELSE LET sel == FilterCategory(expenses, Val(category)) IN
         IF sel = <<>> THEN Done(f, WithCat("NoExpensesInCategory", Val(category)))
         ELSE summary_total(f, sel, today, month, category)
  ELSE summary_total(f, expenses, today, month, category)

\* Variant of delete_save: the shortened list is not saved.
delete_save_unsaved(f, expenses, expense_id) ==
  LET kept == SelectSeq(expenses, LAMBDA exp : exp.id # expense_id) IN
  IF Len(kept) = Len(expenses) THEN Done(f, WithId("NotFound", expense_id))
  ELSE Done(f, Plain("Deleted"))

\* The end of delete_expense, from the list it loaded; f is the file as it is
\* when the invocation gets there.
delete_save(f, expenses, expense_id) ==
  LET kept == SelectSeq(expenses, LAMBDA exp : exp.id # expense_id) IN
  IF Len(kept) = Len(expenses) THEN Done(f, WithId("NotFound", expense_id))
  ELSE Done(save_expenses(kept), Plain("Deleted"))

delete_expense(f, expense_id) == delete_save(f, load_expenses(f), expense_id)

\* The arguments an invocation holds between its read and its write.
Args(cmd, id, description, amount, category) ==
  [cmd |-> cmd, id |-> id, description |-> description, amount |-> amount,
   category |-> category]
NoArgs == Args("none", 0, "", Zero, "")

\* ------------------------------------------------- Spec: one command a step
Init ==
  /\ file = [exists |-> FALSE, data |-> <<>>]
  /\ clock = 1
  /\ assigned = {}
  /\ pc = [p \in Procs |-> "idle"]
  /\ mem = [p \in Procs |-> <<>>]
  /\ args = [p \in Procs |-> NoArgs]
  /\ res = [p \in Procs |-> Plain("None")]

\* The store has room for one more record within the bounds of the model.
Room(f) ==
  /\ Len(load_expenses(f)) < MaxLen
  /\ get_next_id(load_expenses(f)) <= MaxId

\* A command replaces the file by the one its handler leaves; what it prints
\* is the out field of the handler's result.
Run(r) == file' = r.file

Add(description, amount, category) ==
  /\ Room(file)
  /\ Run(add_expense(file, datetime_now, description, amount, category))
  /\ UNCHANGED <<clock, assigned, concVars>>

Update(expense_id, description, amount, category) ==
  /\ Run(main_update(file, expense_id, description, amount, category))
  /\ UNCHANGED <<clock, assigned, concVars>>

List(category) ==
  /\ Run(list_expenses(file, category))
  /\ UNCHANGED <<clock, assigned, concVars>>

Summary(month, category) ==
  /\ Run(get_summary(file, datetime_now, month, category))
  /\ UNCHANGED <<clock, assigned, concVars>>

Delete(expense_id) ==
  /\ Run(delete_expense(file, expense_id))
  /\ UNCHANGED <<clock, assigned, concVars>>

\* A day passes between two commands.
Tick ==
  /\ clock < Len(Clock)
  /\ clock' = clock + 1
  /\ UNCHANGED <<file, assigned, concVars>>

Next ==
  \/ \E d \in Descriptions, a \in RawAmounts, c \in RawCategories : Add(d, a, c)
  \/ \E i \in Ids, d \in OptDescriptions, a \in OptAmounts, c \in OptCategories :
       Update(i, d, a, c)
  \/ \E c \in OptFilters : List(c)
  \/ \E m \in OptMonths, c \in OptFilters : Summary(m, c)
  \/ \E i \in Ids : Delete(i)
  \/ Tick

Spec == Init /\ [][Next]_vars

\* ------------------------- SpecIds: adds and deletes, with the ids on record
\* The add command, the id it reports being added to the history of ids.
AddRecorded(description, amount, category) ==
  /\ Room(file)
  /\ LET r == add_expense(file, datetime_now, description, amount, category) IN
       /\ Run(r)
       /\ assigned' = IF r.out.kind = "Added" THEN assigned \cup {r.out.id} ELSE assigned
  /\ UNCHANGED <<clock, concVars>>

NextIds ==
  \/ \E d \in Descriptions, a \in RawAmounts, c \in RawCategories : AddRecorded(d, a, c)
  \/ \E i \in Ids : Delete(i)
  \/ Tick

SpecIds == Init /\ [][NextIds]_vars

\* ------------------------------- SpecConc: two invocations at the same time
\* The strings the concurrent invocations draw their arguments from.
ConcAmounts == {"4.5", "abc"}
ConcCategories == {"Food", "Bogus"}

\* The invocation ends: its memory is gone, what it printed stays on screen.
Exit(p) ==
  /\ pc' = [pc EXCEPT ![p] = "done"]
  /\ mem' = [mem EXCEPT ![p] = <<>>]
  /\ args' = [args EXCEPT ![p] = NoArgs]

\* An invocation of add validates its arguments and loads the file ...
StartAdd(p, description, amount, category) ==
  /\ pc[p] # "loaded"
  /\ Room(file)
  /\ LET v == add_validate(amount, category) IN
       IF ~v.ok
       THEN /\ res' = [res EXCEPT ![p] = ErrorMsg(v.err)]
            /\ Exit(p)
       ELSE /\ mem' = [mem EXCEPT ![p] = load_expenses(file)]
            /\ args' = [args EXCEPT ![p] = Args("add", 0, description, v.val, category)]
            /\ pc' = [pc EXCEPT ![p] = "loaded"]
            /\ res' = [res EXCEPT ![p] = Plain("None")]
  /\ UNCHANGED <<file, clock, assigned>>

\* Variant of FinishAdd: the record is appended to the file as it is at the
\* time of the write, not to the list loaded earlier.
FinishAdd_reread(p) ==
  /\ pc[p] = "loaded"
  /\ args[p].cmd = "add"
  /\ LET r == add_save(load_expenses(file), datetime_now, args[p].description,
                       args[p].amount, args[p].category)
     IN /\ file' = r.file
        /\ res' = [res EXCEPT ![p] = r.out]
  /\ Exit(p)
  /\ UNCHANGED <<clock, assigned>>

\* ... and later appends its record to the list it loaded and saves it.
FinishAdd(p) ==
  /\ pc[p] = "loaded"
  /\ args[p].cmd = "add"
  /\ LET r == add_save(mem[p], datetime_now, args[p].description, args[p].amount,
                       args[p].category)
     IN /\ file' = r.file
        /\ res' = [res EXCEPT ![p] = r.out]
  /\ Exit(p)
  /\ UNCHANGED <<clock, assigned>>

\* An invocation of delete loads the file ...
StartDelete(p, expense_id) ==
  /\ pc[p] # "loaded"
  /\ mem' = [mem EXCEPT ![p] = load_expenses(file)]
  /\ args' = [args EXCEPT ![p] = Args("delete", expense_id, "", Zero, "")]
  /\ pc' = [pc EXCEPT ![p] = "loaded"]
  /\ res' = [res EXCEPT ![p] = Plain("None")]
  /\ UNCHANGED <<file, clock, assigned>>

\* ... and later saves the list without the record, if it had the record.
FinishDelete(p) ==
  /\ pc[p] = "loaded"
  /\ args[p].cmd = "delete"
  /\ LET r == delete_save(file, mem[p], args[p].id)
     IN /\ file' = r.file
        /\ res' = [res EXCEPT ![p] = r.out]
  /\ Exit(p)
  /\ UNCHANGED <<clock, assigned>>

NextConc ==
  \E p \in Procs :
    \/ \E d \in Descriptions, a \in ConcAmounts, c \in ConcCategories :
         StartAdd(p, d, a, c)
    \/ FinishAdd(p)
    \/ \E i \in Ids : StartDelete(p, i)
    \/ FinishDelete(p)

SpecConc == Init /\ [][NextConc]_vars

\* ------------------------------------------------------------------ claims
\* The list in the file, its ids, and the largest of a set of ids.
Data == load_expenses(file)
IdsIn(expenses) == {expenses[k].id : k \in 1..Len(expenses)}
MaxOf(S) == CHOOSE m \in S : \A x \in S : x <= m
Invalid == {"InvalidAmount", "InvalidCategory"}
Totals == {"Total", "TotalMonth", "TotalCategory", "TotalMonthCategory"}
\* The sum of the amounts of the records at the positions K.
RECURSIVE SumOver(_, _)
SumOver(expenses, K) ==
  IF K = {} THEN Zero
  ELSE LET k == CHOOSE x \in K : TRUE IN
       FloatAdd(SumOver(expenses, K \ {k}), expenses[k].amount)
\* The list without its k-th record.
Without(expenses, k) ==
  SubSeq(expenses, 1, k - 1) \o SubSeq(expenses, k + 1, Len(expenses))

C2_NextId ==
  \A d \in Descriptions, a \in RawAmounts, c \in RawCategories :
    LET r == add_expense(file, datetime_now, d, a, c) IN
    r.out.kind = "Added" =>
      /\ r.out.id = IF Data = <<>> THEN 1 ELSE MaxOf(IdsIn(Data)) + 1
      /\ r.file.exists
      /\ r.file.data = Append(Data, r.file.data[Len(Data) + 1])
      /\ r.file.data[Len(Data) + 1].id = r.out.id

\* C2 witness: a store whose ids have a gap below them, its last record added
\* to a store that was not empty.
C2_Witness ==
  /\ Len(Data) = 2
  /\ Data[1].id > 1
  /\ Data[2].id = Data[1].id + 1

\* C3 as stated: every record in the file has an id of its own, an amount
\* above 0 and a category of the fixed set.
C3_AllRecordsValid ==
  /\ \A j, k \in 1..Len(Data) : Data[j].id = Data[k].id => j = k
  /\ \A k \in 1..Len(Data) : FloatGt0(Data[k].amount)
  /\ \A k \in 1..Len(Data) : Data[k].category \in CategorySet

\* C4: an add or an update that reports an invalid amount or category leaves
\* the file as it was, also when the update had already set the description in
\* memory; an amount that is no number or is not above 0 and a category
\* outside the set are reported so.
C4_NoPersistenceOnInvalid ==
  /\ \A d \in Descriptions, a \in RawAmounts, c \in RawCategories :
       LET r == add_expense(file, datetime_now, d, a, c) IN
       /\ (a \in {"0", "-5", "abc"} \/ c \notin CategorySet) => r.out.kind \in Invalid
       /\ r.out.kind \in Invalid => r.file = file
  /\ \A i \in Ids, d \in OptDescriptions, a \in OptAmounts, c \in OptCategories :
       LET r == main_update(file, i, d, a, c) IN
       /\ ( /\ i \in IdsIn(Data)
            /\ \/ (~IsNone(a) /\ Val(a) \in {"0", "-5", "abc"})
               \/ (~IsNone(c) /\ Val(c) \notin CategorySet) )
          => r.out.kind \in Invalid
       /\ r.out.kind \in Invalid => r.file = file

\* C4 witness: a stored record whose description an update would change, the
\* update giving an invalid amount as well.
C4_Witness ==
  \E k \in 1..Len(Data) :
    /\ Data[k].description = "Coffee"
    /\ main_update(file, Data[k].id, Some("Bus"), Some("abc"), None).out.kind
         = "InvalidAmount"

\* C5: after a successful update of the record with id i the store has the
\* same records in the same order, each with its id and date; a field that was
\* not given keeps its value, a field that was given has the given value, and
\* the records with another id are as they were.
C5_UpdateFrame ==
  \A i \in Ids, d \in OptDescriptions, a \in OptAmounts, c \in OptCategories :
    LET r == main_update(file, i, d, a, c) IN
    r.out.kind = "Updated" =>
      /\ Len(r.file.data) = Len(Data)
      /\ \A k \in 1..Len(Data) :
           LET old == Data[k]
               new == r.file.data[k]
           IN /\ new.id = old.id
              /\ new.date = old.date
              /\ IsNone(d) => new.description = old.description
              /\ IsNone(a) => new.amount = old.amount
              /\ IsNone(c) => new.category = old.category
              /\ old.id # i => new = old
              /\ (old.id = i /\ ~IsNone(d)) => new.description = Val(d)
              /\ (old.id = i /\ ~IsNone(a)) => new.amount = float(Val(a)).val
              /\ (old.id = i /\ ~IsNone(c)) => new.category = Val(c)

\* C5 witness: two records, and an update of the second one that changes its
\* amount only.
C5_Witness ==
  /\ Len(Data) = 2
  /\ Data[1].amount = NaN
  /\ Data[2].amount = NaN
  /\ LET r == main_update(file, Data[2].id, None, Some("4.5"), None) IN
       /\ r.out.kind = "Updated"
       /\ r.file.data[2].amount = Float(450)
       /\ r.file.data[1] = Data[1]

\* C6 as stated: list and summary with a category outside the fixed set report
\* an invalid category whatever the store holds, the empty store included.
C6_InvalidCategoryAlways ==
  \A c \in FilterCategories \ CategorySet :
    /\ list_expenses(file, Some(c)).out.kind = "InvalidCategory"
    /\ \A m \in OptMonths :
         get_summary(file, datetime_now, m, Some(c)).out.kind = "InvalidCategory"

\* C6 amended: when the store is not empty, list and summary with a category
\* that is not the empty string and is outside the fixed set report an invalid
\* category, whatever the month; on an empty store both report that there are
\* no expenses, and the empty string is taken as no category at all.
C6_InvalidCategoryWhenStored ==
  /\ \A c \in FilterCategories \ CategorySet :
       (Data # <<>> /\ c # "") =>
         /\ list_expenses(file, Some(c)).out.kind = "InvalidCategory"
         /\ \A m \in OptMonths :
              get_summary(file, datetime_now, m, Some(c)).out.kind = "InvalidCategory"
  /\ \A c \in OptFilters, m \in OptMonths :
       Data = <<>> =>
         /\ list_expenses(file, c).out.kind = "NoExpenses"
         /\ get_summary(file, datetime_now, m, c).out.kind = "NoExpenses"
  /\ \A m \in OptMonths :
       /\ list_expenses(file, Some("")) = list_expenses(file, None)
       /\ get_summary(file, datetime_now, m, Some("")) = get_summary(file, datetime_now, m, None)

\* C6 witness: a store with a record in it, on which list with the category
\* Bogus reports an invalid category.
C6_Witness ==
  /\ Data # <<>>
  /\ list_expenses(file, Some("Bogus")).out.kind = "InvalidCategory"
  /\ get_summary(file, datetime_now, Some(1), Some("Bogus")).out.kind = "InvalidCategory"

\* C7 as stated, the part about the total: summary with a month outside 1..12
\* reports no total, whatever the store holds and whatever the category.  (The
\* claim also says that the report is an invalid month.)
C7_BadMonthReportsNoTotal ==
  \A m \in Months, c \in OptFilters :
    ~(1 <= m /\ m <= 12) =>
      get_summary(file, datetime_now, Some(m), c).out.kind \notin Totals

\* C8: the total that summary reports without filters is the sum of the
\* amounts of all records, and the total it reports for a category is the sum
\* of the amounts of the records of that category.
C8_SummaryTotals ==
  /\ LET r == get_summary(file, datetime_now, None, None) IN
       /\ Data # <<>> => r.out.kind = "Total"
       /\ r.out.kind = "Total" => r.out.total = SumOver(Data, 1..Len(Data))
  /\ \A c \in CategorySet :
       LET r == get_summary(file, datetime_now, None, Some(c))
           K == {k \in 1..Len(Data) : Data[k].category = c}
       IN /\ K # {} => r.out.kind = "TotalCategory"
          /\ r.out.kind = "TotalCategory" => (r.out.cat = c /\ r.out.total = SumOver(Data, K))

\* C8 witness: records of two categories, so that the total of a category is
\* not the total of the store.
C8_Witness ==
  /\ Len(Data) = 2
  /\ Data[1].category = "Food" /\ Data[1].amount = Float(450)
  /\ Data[2].category = "Transportation" /\ Data[2].amount = Float(450)
  /\ get_summary(file, datetime_now, None, None).out.total = Float(900)
  /\ get_summary(file, datetime_now, None, Some("Food")).out.total = Float(450)

\* C9: deleting an id that is in the store reports success and saves the list
\* without that record; deleting the same id right after reports that it is
\* not found and leaves the file as the first delete saved it.
C9_DeleteTwice ==
  \A i \in Ids :
    i \in IdsIn(Data) =>
      LET r == delete_expense(file, i)
          r2 == delete_expense(r.file, i)
      IN /\ r.out.kind = "Deleted"
         /\ r.file.exists
         /\ \E k \in 1..Len(Data) : Data[k].id = i /\ r.file.data = Without(Data, k)
         /\ r2.out.kind = "NotFound"
         /\ r2.out.id = i
         /\ r2.file = r.file

\* C9 witness: a store of two records from which either can be deleted.
C9_Witness ==
  /\ Len(Data) = 2
  /\ delete_expense(file, Data[1].id).file.data = <<Data[2]>>
  /\ delete_expense(delete_expense(file, Data[1].id).file, Data[1].id).out.kind = "NotFound"

\* C10: when two adds have both loaded the same list and one of them has saved
\* its record, the write of the other one reports success with the same id
\* and leaves a file that has the loaded list and its own record only: the
\* record of the first is lost.
C10_LostUpdate ==
  [][\A p, q \in Procs :
       ( /\ p # q
         /\ pc[p] = "done" /\ res[p].kind = "Added"
         /\ pc[q] = "loaded" /\ args[q].cmd = "add"
         /\ Len(Data) = Len(mem[q]) + 1
         /\ SubSeq(Data, 1, Len(mem[q])) = mem[q]
         /\ Data[Len(Data)].id = res[p].id
         /\ pc'[q] = "done" )
       =>
       ( /\ res'[q].kind = "Added"
         /\ res'[q].id = res[p].id
         /\ res'[p] = res[p]
         /\ Len(load_expenses(file')) = Len(mem[q]) + 1
         /\ SubSeq(load_expenses(file'), 1, Len(mem[q])) = mem[q]
         /\ load_expenses(file')[Len(mem[q]) + 1].description = args[q].description )
    ]_vars

\* C10 witness: both adds have loaded the same list, the first has saved its
\* record and reported its id, the second is about to write.
C10_Witness ==
  \E p, q \in Procs :
    /\ p # q
    /\ pc[p] = "done" /\ res[p].kind = "Added"
    /\ pc[q] = "loaded" /\ args[q].cmd = "add"
    /\ mem[q] # <<>>
    /\ Len(Data) = Len(mem[q]) + 1
    /\ SubSeq(Data, 1, Len(mem[q])) = mem[q]
    /\ Data[Len(Data)].id = res[p].id
    /\ Data[Len(Data)].description # args[q].description

====
